---- MODULE Spec2Model ----
(***************************************************************************)
(* UDisksSpawnedJob (src/src/udisksspawnedjob.c): one Job, the GLib main   *)
(* context it captures, the cancellation token, and the spawned child      *)
(* with its three pipes.                                                   *)
(*                                                                         *)
(* Loop callbacks (idle, child watch, I/O watches) run one at a time on    *)
(* the thread that iterates the captured context.  When that is the        *)
(* constructing thread they run only after the constructor has returned    *)
(* (pc = "run"); when the constructing thread has no thread-default        *)
(* context the sources go to the global default context, which another     *)
(* thread iterates while the constructor is still running.  The token may  *)
(* be tripped by any thread at any moment, so the constructor is split at  *)
(* the points where that matters.  The child is a separate process: it     *)
(* writes, exits and is reaped independently of the loop.                  *)
(***************************************************************************)
EXTENDS Integers, Sequences, FiniteSets, TLC

\* ---- bounds of the model -------------------------------------------------
\* bytes the child may write before it exits, to stdout and stderr together
MaxWrites == 1
\* length of input_string
MaxIn == 2
\* bytes the stdin pipe holds before a write to it fails with EAGAIN (the
\* kernel's pipe capacity, scaled down below MaxIn)
PipeCap == 1
\* bytes the write buffer of a GIOChannel holds (its buffer size, scaled down)
ChanBufSize == 1
\* stand-in for sizeof buf (1024, lines 266 and 280), the size of one chunked
\* read, scaled down to the amounts of data the model moves
BufSize == 1

\* ---- values ---------------------------------------------------------------
\* a NULL gchar* / GString*: a sequence no byte string equals
Null == <<-1>>
\* job->child_*_fd when not open (udisks_spawned_job_init)
NoFd == -1
\* job->input_string_cursor before the stdin pipe is set up (zeroed instance)
NullCursor == -1
\* the descriptors and the pid g_spawn_async_with_pipes hands back
StdinFd == 3
StdoutFd == 4
StderrFd == 5
ChildPid == 7
\* the three descriptor fields of the Job and the numbers they can hold
FdFields == {"child_stdin_fd", "child_stdout_fd", "child_stderr_fd"}
Fds == {StdinFd, StdoutFd, StderrFd}
\* bytes a child may write: an ASCII letter, and 0xFF, which no UTF-8 text holds
OutBytes == {97, 255}
\* bytes of input_string: a C string, so never 0
InBytes == {97, 98}
\* raw wait statuses: exit 0, exit 1, killed by SIGTERM
Statuses == {0, 256, 15}
\* error kinds of a completion (NoError is a NULL GError)
NoError == "none"
Cancelled == "Cancelled"
ParseFailed == "ParseFailed"
SpawnFailed == "SpawnFailed"

RECURSIVE SeqsUpTo(_, _)
SeqsUpTo(S, n) ==
    IF n = 0 THEN {<<>>}
    ELSE LET shorter == SeqsUpTo(S, n - 1)
         IN  shorter \cup {Append(s, b) : s \in {t \in shorter : Len(t) = n - 1}, b \in S}

Min(a, b) == IF a < b THEN a ELSE b

VARIABLES
    tokenGiven,     \* the caller passed a GCancellable
    tripped,        \* that token is cancelled
    tripAt,         \* history: where the child was when the token tripped
    input_string,   \* the input_string handed to udisks_spawned_job_new (Null or bytes)
    input_heap,     \* the memory job->input_string points to (Null or bytes)
    main_context,   \* job->main_context: ThreadDefault or GlobalDefault (NULL)
    pc,             \* where the constructing thread is in the constructor
    job,            \* the fields of struct _UDisksSpawnedJob
    ref_count,      \* GObject reference count of the Job
    callerHolds,    \* the caller still holds the reference new() returned
    finalized,      \* udisks_spawned_job_finalize has run
    idleQ,          \* errors of the attached idle sources, oldest first
    completed,      \* spawned-job-completed emissions, oldest first
    childState,     \* "none", "running", "exited" (zombie), "reaped"
    childStatus,    \* raw wait status once exited
    termSent,       \* SIGTERMs sent to the child's pid
    releaseWatch,   \* the detached child watch of release is attached
    stdinChan,      \* write buffer of child_stdin_channel
    stdinPipe,      \* bytes in the stdin pipe, not yet read by the child
    stdinGot,       \* bytes the child has read from its stdin
    outPipe,        \* bytes in the stdout pipe, not yet read
    outChan,        \* read buffer of child_stdout_channel
    errPipe,
    errChan,
    wroteOut,       \* history: all bytes the child wrote to stdout
    wroteErr,
    cancelled_running, \* a thread is inside g_cancellable_cancel and on_cancelled has not run yet
    close_calls,    \* history: how often close () was called on each descriptor number
    call,           \* a function called on its own: its name and arguments
    ret             \* what that call returned

vars == <<tokenGiven, tripped, tripAt, input_string, input_heap, main_context, pc, job, ref_count, callerHolds,
          finalized, idleQ, completed, childState, childStatus, termSent, releaseWatch,
          stdinChan, stdinPipe, stdinGot, outPipe, outChan, errPipe, errChan, wroteOut,
          wroteErr, close_calls, cancelled_running, call, ret>>

inputVars == <<tokenGiven, input_string, main_context>>
osVars == <<childState, childStatus>>
pipeVars == <<stdinChan, stdinPipe, stdinGot, outPipe, outChan, errPipe, errChan>>
histVars == <<wroteOut, wroteErr>>
utilVars == <<call, ret>>
heapVars == <<input_heap>>
fdVars == <<close_calls>>
cancelVars == <<cancelled_running>>
jobVars == <<tokenGiven, tripped, tripAt, input_string, input_heap, main_context, pc, job, ref_count,
             callerHolds, finalized, idleQ, completed, childState, childStatus, termSent,
             releaseWatch, stdinChan, stdinPipe, stdinGot, outPipe, outChan, errPipe, errChan,
             wroteOut, wroteErr, close_calls, cancelled_running>>

\* no function is being called on its own, nothing was returned yet
NoCall == [fn |-> "none"]
NoRet == [fn |-> "none"]

\* g_main_context_get_thread_default: the context the constructing thread
\* iterates itself once the constructor has returned, or NULL, which makes
\* g_source_attach use the global default context that the main thread iterates
ThreadDefault == "thread-default"
GlobalDefault == "global-default"

\* the thread iterating job->main_context is free to dispatch a callback
LoopDispatches == pc = "run" \/ main_context = GlobalDefault

\* ---- the Job right after udisks_spawned_job_init -------------------------
NewJob(cancellable) ==
    [ cancellable            |-> cancellable,
      cancellable_handler_id |-> 0,
      input_string_cursor    |-> NullCursor,
      child_pid              |-> 0,
      child_stdin_fd         |-> NoFd,
      child_stdout_fd        |-> NoFd,
      child_stderr_fd        |-> NoFd,
      child_stdin_channel    |-> FALSE,
      child_stdout_channel   |-> FALSE,
      child_stderr_channel   |-> FALSE,
      child_watch_source     |-> FALSE,
      child_stdin_source     |-> FALSE,
      child_stdout_source    |-> FALSE,
      child_stderr_source    |-> FALSE,
      child_stdout           |-> Null,
      child_stderr           |-> Null ]

\* g_value_dup_string of set_property (line 181): a NULL stays NULL, a string is
\* copied with its terminating NUL
g_value_dup_string(s) == IF s = Null THEN Null ELSE s \o <<0>>

\* strlen: the bytes in front of the first NUL
RECURSIVE strlen(_)
strlen(mem) == IF mem = <<>> \/ Head(mem) = 0 THEN 0 ELSE 1 + strlen(Tail(mem))

\* a finalize that frees the input string as it is
finalize_input_JustFrees(mem, last) == mem

\* lines 129-134 of udisks_spawned_job_finalize, run when the last reference
\* goes: memset over strlen bytes, then g_free.  The result is what the memory
\* holds when it is released.
finalize_input(mem, last) ==
    IF last /\ mem # Null
    THEN [i \in 1..Len(mem) |-> IF i <= strlen(mem) THEN 0 ELSE mem[i]]
    ELSE mem

JobInit ==
    /\ tokenGiven \in BOOLEAN
    /\ tripped = FALSE
    /\ tripAt = "never"
    /\ input_string \in {Null} \cup SeqsUpTo(InBytes, MaxIn)
    /\ input_heap = g_value_dup_string(input_string)
    /\ main_context \in {ThreadDefault, GlobalDefault}
    /\ pc = "new"
    /\ job = NewJob(tokenGiven)
    /\ ref_count = 1
    /\ callerHolds = TRUE
    /\ finalized = FALSE
    /\ idleQ = <<>>
    /\ completed = <<>>
    /\ childState = "none"
    /\ childStatus = 0
    /\ termSent = 0
    /\ releaseWatch = FALSE
    /\ stdinChan = <<>>
    /\ stdinPipe = <<>>
    /\ stdinGot = <<>>
    /\ outPipe = <<>>
    /\ outChan = <<>>
    /\ errPipe = <<>>
    /\ errChan = <<>>
    /\ wroteOut = <<>>
    /\ wroteErr = <<>>
    /\ close_calls = [d \in Fds |-> 0]
    /\ cancelled_running = FALSE

\* udisks_spawned_job_new: a Job under construction
Init ==
    /\ JobInit
    /\ call = NoCall
    /\ ret = NoRet

\* the utility functions and the class handler are called without a Job running
NoJob ==
    /\ JobInit
    /\ ~tokenGiven
    /\ input_string = Null
    /\ main_context = ThreadDefault

\* ---- GLib pieces the callbacks rest on -----------------------------------
\* A GIOChannel made by g_io_channel_unix_new has the encoding "UTF-8" until
\* g_io_channel_set_encoding is called, and the Job never calls it: reads hand
\* out validated text only, and stop in front of a byte that is not UTF-8.
IsUtf8Byte(b) == b < 128

RECURSIVE ValidPrefixLen(_)
ValidPrefixLen(s) ==
    IF s = <<>> \/ ~IsUtf8Byte(Head(s)) THEN 0 ELSE 1 + ValidPrefixLen(Tail(s))

\* g_io_channel_read_chars (channel, buf, count, &bytes_read, NULL): fill the
\* channel's buffer from the pipe, hand out at most count validated bytes
g_io_channel_read_chars(chan, pipe, count) ==
    LET all == chan \o pipe
        n   == Min(count, ValidPrefixLen(all))
    IN  [ bytes |-> SubSeq(all, 1, n),
          chan  |-> SubSeq(all, n + 1, Len(all)) ]

\* g_io_channel_read_to_end: G_IO_STATUS_NORMAL with everything up to EOF, or
\* G_IO_STATUS_ERROR and no data when bytes that are not UTF-8 are left over
g_io_channel_read_to_end(chan, pipe) ==
    LET all == chan \o pipe
    IN  IF ValidPrefixLen(all) = Len(all)
        THEN [ normal |-> TRUE,  bytes |-> all,  chan |-> <<>> ]
        ELSE [ normal |-> FALSE, bytes |-> <<>>, chan |-> all ]

\* g_io_channel_write_chars followed by g_io_channel_flush on the buffered,
\* non-blocking stdin channel.  The channel takes `rest` into its write buffer,
\* writing the buffer through to the pipe while the pipe accepts it; it stops
\* taking when the pipe returns EAGAIN and the buffer is full.  bytes_written
\* counts what the channel took, in the pipe or still in the buffer.
g_io_channel_write_flush(chan, pipe, rest) ==
    LET data  == chan \o rest
        moved == Min(PipeCap - Len(pipe), Len(data))
        held  == Min(ChanBufSize, Len(data) - moved)
    IN  [ bytes_written |-> moved + held - Len(chan),
          chan |-> SubSeq(data, moved + 1, moved + held),
          pipe |-> pipe \o SubSeq(data, 1, moved) ]

\* ---- the completion signal -----------------------------------------------
\* an emission that hands out empty buffers and the status 1 whatever it is given
Emission_EmptyBuffers(error, status, out, err) ==
    [ error |-> error, status |-> 1, out |-> <<>>, err |-> <<>> ]

Emission(error, status, out, err) ==
    [ error |-> error, status |-> status, out |-> out, err |-> err ]

\* an emitter that emits where it is called instead of attaching an idle source
emit_completed_with_error_directly(q, log, refs, error) ==
    [ idleQ |-> q, completed |-> Append(log, Emission(error, 0, Null, Null)), ref_count |-> refs ]

\* an emitter whose idle source borrows the Job without a reference
emit_completed_with_error_in_idle_Borrowed(q, log, refs, error) ==
    [ idleQ |-> Append(q, error), completed |-> log, ref_count |-> refs ]

\* emit_completed_with_error_in_idle: take a reference, attach an idle source
emit_completed_with_error_in_idle(q, log, refs, error) ==
    [ idleQ |-> Append(q, error), completed |-> log, ref_count |-> refs + 1 ]

\* ---- release ---------------------------------------------------------------
ReleasedFields(j) ==
    [ j EXCEPT !.child_watch_source     = FALSE,
               !.child_pid              = 0,
               !.child_stdout           = Null,
               !.child_stderr           = Null,
               !.child_stdin_channel    = FALSE,
               !.child_stdout_channel   = FALSE,
               !.child_stderr_channel   = FALSE,
               !.child_stdin_source     = FALSE,
               !.child_stdout_source    = FALSE,
               !.child_stderr_source    = FALSE,
               !.child_stdin_fd         = NoFd,
               !.child_stdout_fd        = NoFd,
               !.child_stderr_fd        = NoFd,
               !.cancellable_handler_id = 0,
               !.cancellable            = FALSE ]

\* release that nukes the child but leaves nobody to reap it
release_resources_NoReapWatch(j) ==
    [ job |-> ReleasedFields(j), kill |-> j.child_pid # 0, watch |-> FALSE ]

\* release that leaves the child alone and only waits for it
release_resources_NoSignal(j) ==
    [ job |-> ReleasedFields(j), kill |-> FALSE, watch |-> j.child_pid # 0 ]

\* release that forgets to clear child_pid
release_resources_KeepsPid(j) ==
    [ job   |-> [ReleasedFields(j) EXCEPT !.child_pid = j.child_pid],
      kill  |-> j.child_pid # 0,
      watch |-> j.child_pid # 0 ]

\* udisks_spawned_job_release_resources: the Job afterwards, whether SIGTERM
\* was sent, and whether a detached child watch was attached for the pid
udisks_spawned_job_release_resources(j) ==
    [ job |-> ReleasedFields(j), kill |-> j.child_pid # 0, watch |-> j.child_pid # 0 ]

\* g_object_unref that may be the last one: udisks_spawned_job_finalize runs
\* release once more.  `j` is the Job before the unref, `last` whether the
\* count drops to zero.
AfterUnref(j, last) ==
    IF last THEN udisks_spawned_job_release_resources(j)
    ELSE [ job |-> j, kill |-> FALSE, watch |-> FALSE ]

\* g_io_channel_unref of release drops the last reference of the stdin channel
\* while its fd is still open (the sources go before the fds are closed): the
\* channel flushes its write buffer in blocking mode.  The write ends when the
\* child has made room for the bytes or has gone away; k bytes get through.
g_io_channel_purge(k) ==
    LET all  == stdinPipe \o SubSeq(stdinChan, 1, k)
        over == IF Len(all) > PipeCap THEN Len(all) - PipeCap ELSE 0
    IN  /\ stdinGot' = stdinGot \o SubSeq(all, 1, over)
        /\ stdinPipe' = SubSeq(all, over + 1, Len(all))
        /\ stdinChan' = <<>>

\* close (fd): one more call on that descriptor number
close(calls, fd) == [calls EXCEPT ![fd] = @ + 1]

\* the world after the Job's fields became r.job through zero or more releases
\* that together sent `kills` SIGTERMs and attached a watch iff `watch`
Settle(newJob, kills, watch) ==
    /\ job' = newJob
    /\ termSent' = termSent + kills
    /\ releaseWatch' = (releaseWatch \/ watch)
    /\ IF job.child_stdin_channel /\ ~newJob.child_stdin_channel
       THEN \E k \in (IF childState = "running" THEN 0..Len(stdinChan) ELSE {0}) :
                g_io_channel_purge(k)
       ELSE UNCHANGED <<stdinChan, stdinPipe, stdinGot>>
    /\ outChan' = IF newJob.child_stdout_channel THEN outChan ELSE <<>>
    /\ errChan' = IF newJob.child_stderr_channel THEN errChan ELSE <<>>
    \* lines 845-859: release closes the descriptor of every field that is not -1
    /\ close_calls' = [d \in Fds |->
          IF \E f \in FdFields : job[f] = d /\ newJob[f] = NoFd
          THEN close_calls[d] + 1 ELSE close_calls[d]]

Kills(r) == IF r.kill THEN 1 ELSE 0

\* ---- construction (udisks_spawned_job_constructed) -----------------------
\* a constructor that does not look at the token before it goes on
Construct_Check_Unchecked ==
    /\ pc = "new"
    /\ pc' = "connect"
    /\ job' = [job EXCEPT !.cancellable = TRUE]
    /\ UNCHANGED <<utilVars, heapVars, fdVars, inputVars, tripped, tripAt, ref_count, callerHolds,
                   finalized, idleQ, completed, osVars, termSent, releaseWatch, pipeVars,
                   histVars, cancelVars>>

\* lines 368-382: own token if none was given, capture the context, and the
\* "could already be cancelled" check
Construct_Check ==
    /\ pc = "new"
    /\ IF tripped
       THEN LET e == emit_completed_with_error_in_idle(idleQ, completed, ref_count, Cancelled)
            IN  /\ idleQ' = e.idleQ
                /\ completed' = e.completed
                /\ ref_count' = e.ref_count
                /\ pc' = "out"
       ELSE /\ pc' = "connect"
            /\ UNCHANGED <<idleQ, completed, ref_count>>
    /\ job' = [job EXCEPT !.cancellable = TRUE]
    /\ UNCHANGED <<utilVars, heapVars, fdVars, inputVars, tripped, tripAt, callerHolds, finalized, osVars, termSent,
                   releaseWatch, pipeVars, histVars, cancelVars>>

\* lines 384-387: g_cancellable_connect; it calls on_cancelled at once when the
\* token was tripped since the check
Construct_Connect ==
    /\ pc = "connect"
    /\ job' = [job EXCEPT !.cancellable_handler_id = 1]
    /\ IF tripped
       THEN LET e == emit_completed_with_error_in_idle(idleQ, completed, ref_count, Cancelled)
            IN  /\ idleQ' = e.idleQ
                /\ completed' = e.completed
                /\ ref_count' = e.ref_count
       ELSE UNCHANGED <<idleQ, completed, ref_count>>
    /\ pc' = "parse"
    /\ UNCHANGED <<utilVars, heapVars, fdVars, inputVars, tripped, tripAt, callerHolds, finalized, osVars, termSent,
                   releaseWatch, pipeVars, histVars, cancelVars>>

\* a constructor that reports the parse failure and goes on to spawn
Construct_Parse_GoesOn ==
    /\ pc = "parse"
    /\ \E parsed \in BOOLEAN :
         IF parsed
         THEN UNCHANGED <<idleQ, completed, ref_count>>
         ELSE LET e == emit_completed_with_error_in_idle(idleQ, completed, ref_count, ParseFailed)
              IN  /\ idleQ' = e.idleQ
                  /\ completed' = e.completed
                  /\ ref_count' = e.ref_count
    /\ pc' = "spawn"
    /\ UNCHANGED <<utilVars, heapVars, fdVars, inputVars, tripped, tripAt, job, callerHolds, finalized,
                   osVars, termSent, releaseWatch, pipeVars, histVars, cancelVars>>

\* lines 389-401: g_shell_parse_argv
Construct_Parse ==
    /\ pc = "parse"
    /\ \E parsed \in BOOLEAN :
         IF parsed
         THEN /\ pc' = "spawn"
              /\ UNCHANGED <<idleQ, completed, ref_count>>
         ELSE LET e == emit_completed_with_error_in_idle(idleQ, completed, ref_count, ParseFailed)
              IN  /\ idleQ' = e.idleQ
                  /\ completed' = e.completed
                  /\ ref_count' = e.ref_count
                  /\ pc' = "out"
    /\ UNCHANGED <<utilVars, heapVars, fdVars, inputVars, tripped, tripAt, job, callerHolds, finalized, osVars, termSent,
                   releaseWatch, pipeVars, histVars, cancelVars>>

\* a constructor that opens the stdin channel and never watches it
SpawnedFields_StdinUnwatched(j, input) ==
    [ j EXCEPT !.child_pid            = ChildPid,
               !.child_stdin_fd       = IF input # Null THEN StdinFd ELSE NoFd,
               !.child_stdout_fd      = StdoutFd,
               !.child_stderr_fd      = StderrFd,
               !.child_watch_source   = TRUE,
               !.input_string_cursor  = IF input # Null THEN 0 ELSE j.input_string_cursor,
               !.child_stdin_channel  = (input # Null),
               !.child_stdin_source   = FALSE,
               !.child_stdout         = <<>>,
               !.child_stdout_channel = TRUE,
               !.child_stdout_source  = TRUE,
               !.child_stderr         = <<>>,
               !.child_stderr_channel = TRUE,
               !.child_stderr_source  = TRUE ]

\* lines 424-455: the Job once the child runs: watch, channels, sources, buffers
SpawnedFields(j, input) ==
    [ j EXCEPT !.child_pid            = ChildPid,
               !.child_stdin_fd       = IF input # Null THEN StdinFd ELSE NoFd,
               !.child_stdout_fd      = StdoutFd,
               !.child_stderr_fd      = StderrFd,
               !.child_watch_source   = TRUE,
               !.input_string_cursor  = IF input # Null THEN 0 ELSE j.input_string_cursor,
               !.child_stdin_channel  = (input # Null),
               !.child_stdin_source   = (input # Null),
               !.child_stdout         = <<>>,
               !.child_stdout_channel = TRUE,
               !.child_stdout_source  = TRUE,
               !.child_stderr         = <<>>,
               !.child_stderr_channel = TRUE,
               !.child_stderr_source  = TRUE ]

\* lines 403-455: g_spawn_async_with_pipes and the registration of the sources
Construct_Spawn ==
    /\ pc = "spawn"
    /\ \E spawned \in BOOLEAN :
         IF spawned
         THEN /\ job' = SpawnedFields(job, input_string)
              /\ childState' = "running"
              /\ UNCHANGED <<idleQ, completed, ref_count>>
         ELSE LET e == emit_completed_with_error_in_idle(idleQ, completed, ref_count, SpawnFailed)
              IN  /\ idleQ' = e.idleQ
                  /\ completed' = e.completed
                  /\ ref_count' = e.ref_count
                  /\ UNCHANGED <<job, childState>>
    /\ pc' = "out"
    /\ UNCHANGED <<utilVars, heapVars, fdVars, inputVars, tripped, tripAt, callerHolds, finalized, childStatus, termSent,
                   releaseWatch, pipeVars, histVars, cancelVars>>

\* lines 457-460: the constructor returns, the caller has its Job
Construct_Return ==
    /\ pc = "out"
    /\ pc' = "run"
    /\ UNCHANGED <<utilVars, heapVars, fdVars, inputVars, tripped, tripAt, job, ref_count, callerHolds, finalized, idleQ,
                   completed, osVars, termSent, releaseWatch, pipeVars, histVars, cancelVars>>

\* ---- the token -----------------------------------------------------------
\* where the child is when the token trips
TripPoint ==
    IF pc = "new" THEN "before"
    ELSE IF childState = "exited" /\ job.child_watch_source /\ job.cancellable_handler_id > 0
         THEN "exitPending"
         ELSE childState

\* g_cancellable_cancel on any thread: the token is cancelled and, if the
\* handler is connected, that thread goes on to call on_cancelled
g_cancellable_cancel ==
    /\ tokenGiven
    /\ ~tripped
    /\ tripped' = TRUE
    /\ tripAt' = TripPoint
    /\ cancelled_running' = (job.cancellable_handler_id > 0)
    /\ UNCHANGED <<utilVars, heapVars, fdVars, inputVars, pc, job, ref_count, callerHolds, finalized,
                   idleQ, completed, osVars, termSent, releaseWatch, pipeVars, histVars>>

\* lines 247-258, in the thread that cancelled the token.  The Job pointer is
\* the handler's user_data and carries no reference: when the last reference
\* went away in between (g_cancellable_disconnect in release only waits for
\* this handler to return), g_object_ref at line 236 finds no live object and
\* the idle source is attached all the same.
on_cancelled ==
    /\ cancelled_running
    /\ cancelled_running' = FALSE
    /\ LET e == emit_completed_with_error_in_idle(idleQ, completed, ref_count, Cancelled)
       IN  IF finalized
           THEN /\ idleQ' = e.idleQ
                /\ UNCHANGED <<completed, ref_count>>
           ELSE /\ idleQ' = e.idleQ
                /\ completed' = e.completed
                /\ ref_count' = e.ref_count
    /\ UNCHANGED <<utilVars, heapVars, fdVars, inputVars, tripped, tripAt, pc, job, callerHolds,
                   finalized, osVars, termSent, releaseWatch, pipeVars, histVars>>

\* ---- loop callbacks ------------------------------------------------------
\* what a completed handler may do with the caller's reference; the caller
\* has the Job, and can connect a handler, only once new() has returned
HandlerDrops == IF callerHolds /\ pc = "run" THEN {FALSE, TRUE} ELSE {FALSE}

\* lines 203-221: the oldest idle source fires, emits, drops its reference
emit_completed_with_error_in_idle_cb ==
    /\ LoopDispatches
    /\ idleQ # <<>>
    /\ IF finalized
       THEN \* data->job is not a live object: g_signal_emit and g_object_unref
            \* either refuse it or run on freed memory
            /\ idleQ' = Tail(idleQ)
            /\ \E delivered \in BOOLEAN :
                 completed' = IF delivered
                              THEN Append(completed, Emission(Head(idleQ), 0, Null, Null))
                              ELSE completed
            /\ UNCHANGED <<job, ref_count, callerHolds, finalized, input_heap, termSent,
                           releaseWatch, stdinChan, stdinPipe, stdinGot, outChan, errChan,
                           close_calls>>
       ELSE \E drop \in HandlerDrops :
              LET refs == ref_count - (IF drop THEN 1 ELSE 0)
                  r    == AfterUnref(job, refs = 1)
              IN  /\ completed' = Append(completed, Emission(Head(idleQ), 0, Null, Null))
                  /\ idleQ' = Tail(idleQ)
                  /\ callerHolds' = (callerHolds /\ ~drop)
                  /\ ref_count' = refs - 1
                  /\ finalized' = (refs = 1)
                  /\ input_heap' = finalize_input(input_heap, refs = 1)
                  /\ Settle(r.job, Kills(r), r.watch)
    /\ UNCHANGED <<utilVars, inputVars, tripped, tripAt, pc, osVars, outPipe, errPipe, histVars, cancelVars>>

\* lines 260-272
read_child_stderr ==
    /\ LoopDispatches
    /\ job.child_stderr_source
    /\ errPipe # <<>> \/ errChan # <<>>
    /\ LET r == g_io_channel_read_chars(errChan, errPipe, BufSize)
       IN  /\ job' = [job EXCEPT !.child_stderr = @ \o r.bytes]
           /\ errChan' = r.chan
           /\ errPipe' = <<>>
    /\ UNCHANGED <<utilVars, heapVars, fdVars, inputVars, tripped, tripAt, pc, ref_count, callerHolds, finalized, idleQ,
                   completed, osVars, termSent, releaseWatch, stdinChan, stdinPipe, stdinGot,
                   outPipe, outChan, histVars, cancelVars>>

\* lines 274-286
read_child_stdout ==
    /\ LoopDispatches
    /\ job.child_stdout_source
    /\ outPipe # <<>> \/ outChan # <<>>
    /\ LET r == g_io_channel_read_chars(outChan, outPipe, BufSize)
       IN  /\ job' = [job EXCEPT !.child_stdout = @ \o r.bytes]
           /\ outChan' = r.chan
           /\ outPipe' = <<>>
    /\ UNCHANGED <<utilVars, heapVars, fdVars, inputVars, tripped, tripAt, pc, ref_count, callerHolds, finalized, idleQ,
                   completed, osVars, termSent, releaseWatch, stdinChan, stdinPipe, stdinGot,
                   errPipe, errChan, histVars, cancelVars>>

\* a writer that closes the descriptor at the end of the input and leaves its
\* number in child_stdin_fd
write_child_stdin_KeepsFd ==
    /\ LoopDispatches
    /\ job.child_stdin_source
    /\ Len(stdinPipe) < PipeCap \/ Len(stdinChan) < ChanBufSize
    /\ IF job.input_string_cursor = NullCursor \/ job.input_string_cursor = Len(input_string)
       THEN \* nothing left to write: close our end.  The watch keeps the
            \* channel alive until the callback has returned, so the channel's
            \* last flush finds the fd closed: what it buffers is lost.
            /\ job' = [job EXCEPT !.child_stdin_channel = FALSE,
                                  !.child_stdin_source  = FALSE]
            /\ close_calls' = close(close_calls, job.child_stdin_fd)
            /\ stdinChan' = <<>>
            /\ UNCHANGED stdinPipe
       ELSE LET rest == SubSeq(input_string, job.input_string_cursor + 1, Len(input_string))
                w    == g_io_channel_write_flush(stdinChan, stdinPipe, rest)
            IN  /\ job' = [job EXCEPT !.input_string_cursor = @ + w.bytes_written]
                /\ stdinChan' = w.chan
                /\ stdinPipe' = w.pipe
                /\ UNCHANGED close_calls
    /\ UNCHANGED <<utilVars, heapVars, inputVars, tripped, tripAt, pc, ref_count, callerHolds, finalized, idleQ,
                   completed, osVars, termSent, releaseWatch, stdinGot, outPipe, outChan,
                   errPipe, errChan, histVars, cancelVars>>

\* a writer that detaches at the end of the input and leaves the descriptor open
write_child_stdin_LeavesFdOpen ==
    /\ LoopDispatches
    /\ job.child_stdin_source
    /\ Len(stdinPipe) < PipeCap \/ Len(stdinChan) < ChanBufSize
    /\ IF job.input_string_cursor = NullCursor \/ job.input_string_cursor = Len(input_string)
       THEN \* nothing left to write: close our end.  The watch keeps the
            \* channel alive until the callback has returned, so the channel's
            \* last flush finds the fd closed: what it buffers is lost.
            /\ job' = [job EXCEPT !.child_stdin_channel = FALSE,
                                  !.child_stdin_source  = FALSE]
            /\ stdinChan' = <<>>
            /\ UNCHANGED <<stdinPipe, close_calls>>
       ELSE LET rest == SubSeq(input_string, job.input_string_cursor + 1, Len(input_string))
                w    == g_io_channel_write_flush(stdinChan, stdinPipe, rest)
            IN  /\ job' = [job EXCEPT !.input_string_cursor = @ + w.bytes_written]
                /\ stdinChan' = w.chan
                /\ stdinPipe' = w.pipe
                /\ UNCHANGED close_calls
    /\ UNCHANGED <<utilVars, heapVars, inputVars, tripped, tripAt, pc, ref_count, callerHolds, finalized, idleQ,
                   completed, osVars, termSent, releaseWatch, stdinGot, outPipe, outChan,
                   errPipe, errChan, histVars, cancelVars>>

\* lines 288-318; the G_IO_OUT watch is ready when the pipe is writable or
\* the channel's write buffer has room
write_child_stdin ==
    /\ LoopDispatches
    /\ job.child_stdin_source
    /\ Len(stdinPipe) < PipeCap \/ Len(stdinChan) < ChanBufSize
    /\ IF job.input_string_cursor = NullCursor \/ job.input_string_cursor = Len(input_string)
       THEN \* nothing left to write: close our end.  The watch keeps the
            \* channel alive until the callback has returned, so the channel's
            \* last flush finds the fd closed: what it buffers is lost.
            /\ job' = [job EXCEPT !.child_stdin_channel = FALSE,
                                  !.child_stdin_source  = FALSE,
                                  !.child_stdin_fd      = NoFd]
            /\ close_calls' = close(close_calls, job.child_stdin_fd)
            /\ stdinChan' = <<>>
            /\ UNCHANGED stdinPipe
       ELSE LET rest == SubSeq(input_string, job.input_string_cursor + 1, Len(input_string))
                w    == g_io_channel_write_flush(stdinChan, stdinPipe, rest)
            IN  /\ job' = [job EXCEPT !.input_string_cursor = @ + w.bytes_written]
                /\ stdinChan' = w.chan
                /\ stdinPipe' = w.pipe
                /\ UNCHANGED close_calls
    /\ UNCHANGED <<utilVars, heapVars, inputVars, tripped, tripAt, pc, ref_count, callerHolds, finalized, idleQ,
                   completed, osVars, termSent, releaseWatch, stdinGot, outPipe, outChan,
                   errPipe, errChan, histVars, cancelVars>>

\* an exit callback that leaves child_pid set when it calls release
child_watch_cb_KeepsPid ==
    /\ LoopDispatches
    /\ job.child_watch_source
    /\ childState = "exited"
    \* release waits in g_cancellable_disconnect for a running on_cancelled
    /\ ~cancelled_running
    /\ \E drop \in HandlerDrops :
         LET o    == g_io_channel_read_to_end(outChan, outPipe)
             e    == g_io_channel_read_to_end(errChan, errPipe)
             out  == IF o.normal THEN job.child_stdout \o o.bytes ELSE job.child_stdout
             err  == IF e.normal THEN job.child_stderr \o e.bytes ELSE job.child_stderr
             \* g_object_ref, then the handlers run
             refs == ref_count + 1 - (IF drop THEN 1 ELSE 0)
             j1   == [job EXCEPT !.child_stdout = out, !.child_stderr = err,
                                 !.child_watch_source = FALSE]
             r1   == udisks_spawned_job_release_resources(j1)
             r2   == AfterUnref(r1.job, refs = 1)
         IN  /\ completed' = Append(completed, Emission(NoError, childStatus, out, err))
             /\ callerHolds' = (callerHolds /\ ~drop)
             /\ ref_count' = refs - 1
             /\ finalized' = (refs = 1)
             /\ input_heap' = finalize_input(input_heap, refs = 1)
             /\ Settle(r2.job, Kills(r1) + Kills(r2), r1.watch \/ r2.watch)
    /\ childState' = "reaped"
    /\ outPipe' = <<>>
    /\ errPipe' = <<>>
    /\ UNCHANGED <<utilVars, inputVars, tripped, tripAt, pc, idleQ, childStatus, histVars, cancelVars>>

\* lines 320-357: the child watch fires (GLib has reaped the child), drain,
\* emit the natural outcome, release
child_watch_cb ==
    /\ LoopDispatches
    /\ job.child_watch_source
    /\ childState = "exited"
    \* release waits in g_cancellable_disconnect for a running on_cancelled
    /\ ~cancelled_running
    /\ \E drop \in HandlerDrops :
         LET o    == g_io_channel_read_to_end(outChan, outPipe)
             e    == g_io_channel_read_to_end(errChan, errPipe)
             out  == IF o.normal THEN job.child_stdout \o o.bytes ELSE job.child_stdout
             err  == IF e.normal THEN job.child_stderr \o e.bytes ELSE job.child_stderr
             \* g_object_ref, then the handlers run
             refs == ref_count + 1 - (IF drop THEN 1 ELSE 0)
             j1   == [job EXCEPT !.child_stdout = out, !.child_stderr = err,
                                 !.child_pid = 0, !.child_watch_source = FALSE]
             r1   == udisks_spawned_job_release_resources(j1)
             r2   == AfterUnref(r1.job, refs = 1)
         IN  /\ completed' = Append(completed, Emission(NoError, childStatus, out, err))
             /\ callerHolds' = (callerHolds /\ ~drop)
             /\ ref_count' = refs - 1
             /\ finalized' = (refs = 1)
             /\ input_heap' = finalize_input(input_heap, refs = 1)
             /\ Settle(r2.job, Kills(r1) + Kills(r2), r1.watch \/ r2.watch)
    /\ childState' = "reaped"
    /\ outPipe' = <<>>
    /\ errPipe' = <<>>
    /\ UNCHANGED <<utilVars, inputVars, tripped, tripAt, pc, idleQ, childStatus, histVars, cancelVars>>

\* lines 753-759: the detached watch of release fires: the child is reaped
child_watch_from_release_cb ==
    /\ LoopDispatches
    /\ releaseWatch
    /\ childState = "exited"
    /\ childState' = "reaped"
    /\ releaseWatch' = FALSE
    /\ UNCHANGED <<utilVars, heapVars, fdVars, inputVars, tripped, tripAt, pc, job, ref_count, callerHolds, finalized,
                   idleQ, completed, childStatus, termSent, pipeVars, histVars, cancelVars>>

\* ---- the caller ----------------------------------------------------------
\* g_object_unref by the caller outside any handler; lines 117-138 run when it
\* was the last reference
udisks_spawned_job_finalize ==
    /\ pc = "run"
    /\ callerHolds
    /\ LET r == AfterUnref(job, ref_count = 1)
       IN  /\ callerHolds' = FALSE
           /\ ref_count' = ref_count - 1
           /\ finalized' = (ref_count = 1)
           /\ input_heap' = finalize_input(input_heap, ref_count = 1)
           /\ Settle(r.job, Kills(r), r.watch)
    /\ UNCHANGED <<utilVars, inputVars, tripped, tripAt, pc, idleQ, completed, osVars, outPipe,
                   errPipe, histVars, cancelVars>>

\* ---- the child process ---------------------------------------------------
ChildWritesStdout ==
    /\ childState = "running"
    /\ job.child_stdout_fd # NoFd
    /\ Len(wroteOut) + Len(wroteErr) < MaxWrites
    /\ \E b \in OutBytes :
         /\ outPipe' = Append(outPipe, b)
         /\ wroteOut' = Append(wroteOut, b)
    /\ UNCHANGED <<utilVars, heapVars, fdVars, inputVars, tripped, tripAt, pc, job, ref_count, callerHolds, finalized,
                   idleQ, completed, osVars, termSent, releaseWatch, stdinChan, stdinPipe,
                   stdinGot, outChan, errPipe, errChan, wroteErr, cancelVars>>

ChildWritesStderr ==
    /\ childState = "running"
    /\ job.child_stderr_fd # NoFd
    /\ Len(wroteOut) + Len(wroteErr) < MaxWrites
    /\ \E b \in OutBytes :
         /\ errPipe' = Append(errPipe, b)
         /\ wroteErr' = Append(wroteErr, b)
    /\ UNCHANGED <<utilVars, heapVars, fdVars, inputVars, tripped, tripAt, pc, job, ref_count, callerHolds, finalized,
                   idleQ, completed, osVars, termSent, releaseWatch, stdinChan, stdinPipe,
                   stdinGot, outPipe, outChan, errChan, wroteOut, cancelVars>>

\* the child reads what is in its stdin pipe
ChildReadsStdin ==
    /\ childState = "running"
    /\ stdinPipe # <<>>
    /\ stdinGot' = stdinGot \o stdinPipe
    /\ stdinPipe' = <<>>
    /\ UNCHANGED <<utilVars, heapVars, fdVars, inputVars, tripped, tripAt, pc, job, ref_count, callerHolds, finalized,
                   idleQ, completed, osVars, termSent, releaseWatch, stdinChan, outPipe,
                   outChan, errPipe, errChan, histVars, cancelVars>>

ChildExits ==
    /\ childState = "running"
    /\ childState' = "exited"
    /\ childStatus' \in Statuses
    /\ UNCHANGED <<utilVars, heapVars, fdVars, inputVars, tripped, tripAt, pc, job, ref_count, callerHolds, finalized,
                   idleQ, completed, termSent, releaseWatch, pipeVars, histVars, cancelVars>>

\* ---- specifications ------------------------------------------------------
Next ==
    \/ Construct_Check
    \/ Construct_Connect
    \/ Construct_Parse
    \/ Construct_Spawn
    \/ Construct_Return
    \/ g_cancellable_cancel
    \/ on_cancelled
    \/ emit_completed_with_error_in_idle_cb
    \/ read_child_stderr
    \/ read_child_stdout
    \/ write_child_stdin
    \/ child_watch_cb
    \/ child_watch_from_release_cb
    \/ udisks_spawned_job_finalize
    \/ ChildWritesStdout
    \/ ChildWritesStderr
    \/ ChildReadsStdin
    \/ ChildExits

Spec == Init /\ [][Next]_vars

\* The loop keeps running (every attached source that stays ready is
\* dispatched, the constructor runs to its end) and the child terminates.
\* Nothing obliges the token to trip, the caller to drop its reference or the
\* child to write.
Fairness ==
    /\ WF_vars(Construct_Check)
    /\ WF_vars(Construct_Connect)
    /\ WF_vars(Construct_Parse)
    /\ WF_vars(Construct_Spawn)
    /\ WF_vars(Construct_Return)
    /\ WF_vars(on_cancelled)
    /\ WF_vars(emit_completed_with_error_in_idle_cb)
    /\ WF_vars(child_watch_cb)
    /\ WF_vars(child_watch_from_release_cb)
    /\ WF_vars(ChildExits)

\* the Jobs of the liveness specification: no input string, the empty one and
\* the longest one, of one byte value (which bytes the input holds is
\* immaterial to when the child is reaped)
FairInit == Init /\ input_string \in {Null, <<>>, [i \in 1..MaxIn |-> 97]}

FairSpec == FairInit /\ [][Next]_vars /\ Fairness

\* ---- texts ----------------------------------------------------------------
\* A C string is the sequence of its bytes.  The literals of the source:
\* "Failed to execute command-line `"
Str_FailedToExecute ==
    <<70, 97, 105, 108, 101, 100, 32, 116, 111, 32, 101, 120, 101, 99, 117, 116, 101, 32,
      99, 111, 109, 109, 97, 110, 100, 45, 108, 105, 110, 101, 32, 96>>
\* "': "
Str_QuoteColon ==
    <<39, 58, 32>>
\* " ("
Str_OpenParen ==
    <<32, 40>>
\* ", "
Str_Comma ==
    <<44, 32>>
\* ")"
Str_CloseParen ==
    <<41>>
\* "Command-line `"
Str_CommandLine ==
    <<67, 111, 109, 109, 97, 110, 100, 45, 108, 105, 110, 101, 32, 96>>
\* "' exited with non-zero exit status "
Str_ExitedWith ==
    <<39, 32, 101, 120, 105, 116, 101, 100, 32, 119, 105, 116, 104, 32, 110, 111, 110, 45,
      122, 101, 114, 111, 32, 101, 120, 105, 116, 32, 115, 116, 97, 116, 117, 115, 32>>
\* ".\n"
Str_DotNewline ==
    <<46, 10>>
\* "' was signaled with signal "
Str_WasSignaled ==
    <<39, 32, 119, 97, 115, 32, 115, 105, 103, 110, 97, 108, 101, 100, 32, 119, 105, 116,
      104, 32, 115, 105, 103, 110, 97, 108, 32>>
\* ").\n"
Str_CloseParenDotNewline ==
    <<41, 46, 10>>
\* "stdout: `"
Str_Stdout ==
    <<115, 116, 100, 111, 117, 116, 58, 32, 96>>
\* "'\nstderr: `"
Str_Stderr ==
    <<39, 10, 115, 116, 100, 101, 114, 114, 58, 32, 96>>
\* "'"
Str_Quote ==
    <<39>>
\* "UNKNOWN_SIGNAL"
Str_UNKNOWN_SIGNAL ==
    <<85, 78, 75, 78, 79, 87, 78, 95, 83, 73, 71, 78, 65, 76>>

\* get_signal_name: the _HANDLE_SIG table, with the signal numbers of Linux
get_signal_name(signal_number) ==
    CASE signal_number = 1 -> <<83, 73, 71, 72, 85, 80>> \* SIGHUP
      [] signal_number = 2 -> <<83, 73, 71, 73, 78, 84>> \* SIGINT
      [] signal_number = 3 -> <<83, 73, 71, 81, 85, 73, 84>> \* SIGQUIT
      [] signal_number = 4 -> <<83, 73, 71, 73, 76, 76>> \* SIGILL
      [] signal_number = 6 -> <<83, 73, 71, 65, 66, 82, 84>> \* SIGABRT
      [] signal_number = 8 -> <<83, 73, 71, 70, 80, 69>> \* SIGFPE
      [] signal_number = 9 -> <<83, 73, 71, 75, 73, 76, 76>> \* SIGKILL
      [] signal_number = 11 -> <<83, 73, 71, 83, 69, 71, 86>> \* SIGSEGV
      [] signal_number = 13 -> <<83, 73, 71, 80, 73, 80, 69>> \* SIGPIPE
      [] signal_number = 14 -> <<83, 73, 71, 65, 76, 82, 77>> \* SIGALRM
      [] signal_number = 15 -> <<83, 73, 71, 84, 69, 82, 77>> \* SIGTERM
      [] signal_number = 10 -> <<83, 73, 71, 85, 83, 82, 49>> \* SIGUSR1
      [] signal_number = 12 -> <<83, 73, 71, 85, 83, 82, 50>> \* SIGUSR2
      [] signal_number = 17 -> <<83, 73, 71, 67, 72, 76, 68>> \* SIGCHLD
      [] signal_number = 18 -> <<83, 73, 71, 67, 79, 78, 84>> \* SIGCONT
      [] signal_number = 19 -> <<83, 73, 71, 83, 84, 79, 80>> \* SIGSTOP
      [] signal_number = 20 -> <<83, 73, 71, 84, 83, 84, 80>> \* SIGTSTP
      [] signal_number = 21 -> <<83, 73, 71, 84, 84, 73, 78>> \* SIGTTIN
      [] signal_number = 22 -> <<83, 73, 71, 84, 84, 79, 85>> \* SIGTTOU
      [] signal_number = 7 -> <<83, 73, 71, 66, 85, 83>> \* SIGBUS
      [] signal_number = 29 -> <<83, 73, 71, 80, 79, 76, 76>> \* SIGPOLL
      [] signal_number = 27 -> <<83, 73, 71, 80, 82, 79, 70>> \* SIGPROF
      [] signal_number = 31 -> <<83, 73, 71, 83, 89, 83>> \* SIGSYS
      [] signal_number = 5 -> <<83, 73, 71, 84, 82, 65, 80>> \* SIGTRAP
      [] signal_number = 23 -> <<83, 73, 71, 85, 82, 71>> \* SIGURG
      [] signal_number = 26 -> <<83, 73, 71, 86, 84, 65, 76, 82, 77>> \* SIGVTALRM
      [] signal_number = 24 -> <<83, 73, 71, 88, 67, 80, 85>> \* SIGXCPU
      [] signal_number = 25 -> <<83, 73, 71, 88, 70, 83, 90>> \* SIGXFSZ
      [] OTHER -> Str_UNKNOWN_SIGNAL

\* ---- the default completion handler ----------------------------------------
\* printf's %d
RECURSIVE Decimal(_)
Decimal(n) ==
    IF n < 0 THEN <<45>> \o Decimal(-n)
    ELSE IF n < 10 THEN <<48 + n>>
    ELSE Decimal(n \div 10) \o <<48 + (n % 10)>>

\* printf's %s of a GString's str: the bytes in front of the first NUL
RECURSIVE CStr(_)
CStr(g) ==
    IF g = <<>> \/ Head(g) = 0 THEN <<>> ELSE <<Head(g)>> \o CStr(Tail(g))

\* <sys/wait.h> on a raw wait status
WIFEXITED(status) == status % 128 = 0
WEXITSTATUS(status) == (status \div 256) % 256
WIFSIGNALED(status) == (status % 128) \notin {0, 127}
WTERMSIG(status) == status % 128

\* the GError behind each error kind: message, g_quark_to_string (domain), code
\* (G_IO_ERROR_CANCELLED, G_SHELL_ERROR_BAD_QUOTING, G_SPAWN_ERROR_NOENT; the
\* messages stand for GLib's)
GError(kind) ==
    CASE kind = Cancelled ->
           [ message |-> <<99, 97, 110, 99, 101, 108, 108, 101, 100>>,      \* "cancelled"
             domain  |-> <<103, 45, 105, 111>>,                             \* "g-io"
             code    |-> 19 ]
      [] kind = ParseFailed ->
           [ message |-> <<113, 117, 111, 116, 101>>,                       \* "quote"
             domain  |-> <<103, 45, 115, 104, 101, 108, 108>>,              \* "g-shell"
             code    |-> 0 ]
      [] kind = SpawnFailed ->
           [ message |-> <<110, 111, 101, 110, 116>>,                       \* "noent"
             domain  |-> <<103, 45, 101, 120, 101, 99>>,                    \* "g-exec"
             code    |-> 8 ]

\* a handler that takes every normal exit for a success
completed_default_IgnoresExitCode(command_line, e) ==
    [ success |-> e.error = NoError /\ WIFEXITED(e.status), message |-> <<>> ]

\* a handler that passes the captured standard error on as the message
completed_default_MessageIsStderr(command_line, e) ==
    [ success |-> e.error = NoError /\ WIFEXITED(e.status) /\ WEXITSTATUS(e.status) = 0,
      message |-> e.err ]

\* udisks_spawned_job_spawned_job_completed_default on the emission e: the
\* arguments of the udisks_job_emit_completed it makes
udisks_spawned_job_spawned_job_completed_default(command_line, e) ==
    IF e.error # NoError
    THEN [ success |-> FALSE,
           message |-> Str_FailedToExecute \o command_line \o Str_QuoteColon
                       \o GError(e.error).message \o Str_OpenParen
                       \o GError(e.error).domain \o Str_Comma
                       \o Decimal(GError(e.error).code) \o Str_CloseParen ]
    ELSE IF WIFEXITED(e.status) /\ WEXITSTATUS(e.status) = 0
    THEN [ success |-> TRUE, message |-> <<>> ]
    ELSE LET how == IF WIFEXITED(e.status)
                    THEN Str_CommandLine \o command_line \o Str_ExitedWith
                         \o Decimal(WEXITSTATUS(e.status)) \o Str_DotNewline
                    ELSE IF WIFSIGNALED(e.status)
                    THEN Str_CommandLine \o command_line \o Str_WasSignaled
                         \o get_signal_name(WTERMSIG(e.status)) \o Str_OpenParen
                         \o Decimal(WTERMSIG(e.status)) \o Str_CloseParenDotNewline
                    ELSE <<>>
         IN  [ success |-> FALSE,
               message |-> how \o Str_Stdout \o CStr(e.out) \o Str_Stderr \o CStr(e.err)
                           \o Str_Quote ]

\* g_signal_emit of spawned-job-completed (G_SIGNAL_RUN_LAST with
\* g_signal_accumulator_true_handled): the subscriber's handlers run first, and
\* the class handler runs unless one of them returned TRUE.  The result is the
\* job completed signals emitted.
g_signal_emit(command_line, e, handled) ==
    IF handled THEN <<>>
    ELSE <<udisks_spawned_job_spawned_job_completed_default(command_line, e)>>

\* length of the texts handed to the handler on its own
MaxText == 1
\* job->command_line: "c"
CommandLines == {<<99>>}
\* bytes of those texts: NUL and a letter
TextBytes == {0, 97}
\* raw wait statuses: exit 0, 1 and 255; SIGKILL, SIGTERM, SIGSEGV with a core
\* dump, and the real-time signal 64
WaitStatuses == {0, 256, 65280, 9, 15, 139, 64}

\* what the Job's emitters hand to g_signal_emit: an error with nothing else
\* (lines 203-221), or no error with the status and the captured texts (345-352)
Emissions ==
    {Emission(k, 0, Null, Null) : k \in {Cancelled, ParseFailed, SpawnFailed}}
    \cup {Emission(NoError, st, o, e) :
              st \in WaitStatuses, o \in SeqsUpTo(TextBytes, MaxText),
              e \in SeqsUpTo(TextBytes, MaxText)}

EmitInit ==
    /\ NoJob
    /\ call \in {[fn |-> "g_signal_emit", command_line |-> c, emission |-> e, handled |-> h] :
                     c \in CommandLines, e \in Emissions, h \in BOOLEAN}
    /\ ret = NoRet

EmitCompleted ==
    /\ call.fn = "g_signal_emit"
    /\ ret = NoRet
    /\ ret' = [fn |-> "g_signal_emit",
               job_completed |-> g_signal_emit(call.command_line, call.emission, call.handled)]
    /\ UNCHANGED <<call, jobVars>>

EmitNext == EmitCompleted

EmitSpec == EmitInit /\ [][EmitNext]_vars

\* ---- claims --------------------------------------------------------------
HasCompleted(kind) == \E i \in 1..Len(completed) : completed[i].error = kind

Unreaped == childState \in {"running", "exited"}

PipesClosed ==
    /\ job.child_stdin_fd = NoFd
    /\ job.child_stdout_fd = NoFd
    /\ job.child_stderr_fd = NoFd

\* the stdin descriptor was closed by write_child_stdin (release has not run)
StdinClosedByWriter ==
    /\ input_string # Null
    /\ job.child_stdin_fd = NoFd
    /\ job.child_stdout_fd # NoFd

\* the spec's scheduling model: the constructing thread iterates the captured
\* context itself, so every callback runs after the constructor has returned
SingleThreaded == main_context = ThreadDefault

\* C1: whatever the interleaving of construction failure, token trip and child
\* exit, no state has two completed emissions for the Job (already with a
\* single thread).
C1_AtMostOneCompleted == SingleThreaded => Len(completed) <= 1

\* C2: every constructed Job eventually emits completed.  A destroyed Job emits
\* nothing any more, so a Job that has been destroyed has emitted already.
C2_CompletedBeforeDestroyed == (SingleThreaded /\ finalized) => completed # <<>>

\* C3: when the token trips while the child's exit is pending on the loop, the
\* Cancelled completion and the natural-outcome completion are never both
\* emitted.
C3_RaceNeverBoth ==
    (SingleThreaded /\ tripAt = "exitPending")
        => ~(HasCompleted(Cancelled) /\ HasCompleted(NoError))

\* C4: when the token trips after the child has exited, no Cancelled completion
\* is ever emitted for the Job.
C4_NoCancelledAfterExit ==
    (SingleThreaded /\ tripAt \in {"exitPending", "exited", "reaped"})
        => ~HasCompleted(Cancelled)

\* C5: no completed event is emitted before the constructor has returned, on
\* any path (token already tripped, parse failure, spawn failure).
C5_NoEmissionInsideConstructor == pc # "run" => completed = <<>>

\* C6: once completed has fired and its handling has returned, stdin_fd,
\* stdout_fd and stderr_fd are all -1, on every completion path.
C6_PipesClosedAfterCompleted ==
    (SingleThreaded /\ pc = "run" /\ completed # <<>>) => PipesClosed

\* C7: after completed has fired for a Job that spawned a child, the child is
\* eventually reaped, also after a Cancelled completion (the loop keeps running
\* and the child terminates).
C7_EventuallyReaped == (completed # <<>> /\ Unreaped) ~> (childState = "reaped")

\* the child of a Job whose completion was Cancelled has been reaped
C7_Witness == HasCompleted(Cancelled) /\ tripAt = "running" /\ childState = "reaped"

\* C8: when the token tripped while the child was running and the Cancelled
\* completion has been delivered, release has sent the child SIGTERM.
C8_CancelSignalsChild ==
    (SingleThreaded /\ tripAt = "running" /\ HasCompleted(Cancelled)
                    /\ childState = "running")
        => termSent >= 1

\* C9: for a child that exits naturally, the stdout and stderr delivered in
\* completed are exactly the bytes the child wrote, in order.
C9_CaptureExact ==
    SingleThreaded =>
        \A i \in 1..Len(completed) :
            completed[i].error = NoError =>
                /\ completed[i].out = wroteOut
                /\ completed[i].err = wroteErr

\* C10: the bytes handed to the child are a prefix of input_bytes, the cursor
\* stays within input_bytes, and once the cursor is at the end and the
\* writable callback has closed stdin the child reads input_bytes exactly
\* before it sees EOF.
C10_InputFidelity ==
    (SingleThreaded /\ input_string # Null) =>
        LET handed == stdinGot \o stdinPipe
        IN  /\ job.input_string_cursor \in {NullCursor} \cup (0..Len(input_string))
            /\ Len(handed) <= Len(input_string)
            /\ handed = SubSeq(input_string, 1, Len(handed))
            /\ StdinClosedByWriter => handed = input_string

\* the emission handed to g_signal_emit and the job completed signal that came
\* out of the default handler
DefaultRan == ret.fn = "g_signal_emit" /\ ~call.handled
JobCompleted == ret.job_completed[1]

\* C11: the default handler reports success exactly when the error is nil, the
\* child exited normally and its exit code is 0; a non-nil error, a non-zero
\* exit code and a death by signal all give success = FALSE.
C11_SuccessIffCleanExit ==
    DefaultRan =>
        /\ Len(ret.job_completed) = 1
        /\ JobCompleted.success
             <=> /\ call.emission.error = NoError
                 /\ call.emission.status % 128 = 0
                 /\ (call.emission.status \div 256) % 256 = 0

\* the handler has run on a clean exit and reported success
C11_Witness ==
    /\ DefaultRan
    /\ call.emission.error = NoError
    /\ call.emission.status = 0
    /\ JobCompleted.success

\* the job completed signals that the completed emissions of log lead to, with
\* a subscriber that marks each of them handled or with none
RECURSIVE JobCompletedLog(_, _)
JobCompletedLog(log, handled) ==
    IF log = <<>> THEN <<>>
    ELSE g_signal_emit(CHOOSE c \in CommandLines : TRUE, Head(log), handled)
         \o JobCompletedLog(Tail(log), handled)

\* C12: with no subscriber marking completed handled, job completed is emitted
\* at most once at any time and exactly once by the time the Job is destroyed;
\* with a subscriber that marks it handled, job completed is never emitted.
C12_JobCompletedExactlyOnce ==
    SingleThreaded =>
        /\ Len(JobCompletedLog(completed, FALSE)) <= 1
        /\ finalized => Len(JobCompletedLog(completed, FALSE)) = 1
        /\ JobCompletedLog(completed, TRUE) = <<>>

IsPrefix(p, s) == Len(p) <= Len(s) /\ SubSeq(s, 1, Len(p)) = p
IsSuffix(p, s) == Len(p) <= Len(s) /\ SubSeq(s, Len(s) - Len(p) + 1, Len(s)) = p

C14_EmissionsOnLoopThread ==
    [][ /\ completed' # completed
            => /\ LoopDispatches
               /\ emit_completed_with_error_in_idle_cb \/ child_watch_cb
               /\ tripped' = tripped
        /\ on_cancelled => completed' = completed ]_vars

\* the token was tripped while the child ran and the loop has delivered the
\* cancellation
C14_Witness ==
    /\ tripped
    /\ tripAt = "running"
    /\ HasCompleted(Cancelled)

\* C15: once a Job that had an input string is destroyed, every byte of the
\* memory that held the string was zero when the memory was released, on every
\* path to destruction; until then the memory holds the string.
C15_InputZeroedBeforeRelease ==
    input_string # Null =>
        /\ Len(input_heap) = Len(input_string) + 1
        /\ finalized => \A i \in 1..Len(input_heap) : input_heap[i] = 0
        /\ ~finalized => input_heap = input_string \o <<0>>

\* a Job with a two-byte input string has been destroyed after its completed
\* emission
C15_Witness ==
    /\ finalized
    /\ Len(input_string) = 2
    /\ input_string # Null
    /\ completed # <<>>
    /\ input_heap = <<0, 0, 0>>

\* the event sources of the Job
SourcesRegistered ==
    {s \in {"child_watch_source", "child_stdin_source", "child_stdout_source",
            "child_stderr_source"} : job[s]}

\* C16: when the token is already tripped as the Job is constructed, then from
\* the constructor's check on no child is spawned, no event source and no
\* cancellation callback is registered, and the one completion of the Job,
\* scheduled or delivered, carries Cancelled.
C16_TrippedBeforeConstruction ==
    (tripAt = "before" /\ pc # "new") =>
        /\ childState = "none"
        /\ job.child_pid = 0
        /\ SourcesRegistered = {}
        /\ job.cancellable_handler_id = 0
        /\ \A i \in 1..Len(idleQ) : idleQ[i] = Cancelled
        /\ \A i \in 1..Len(completed) : completed[i].error = Cancelled
        /\ Len(idleQ) + Len(completed) = 1

\* the token tripped before construction, and the loop has delivered Cancelled
C16_Witness ==
    /\ tripAt = "before"
    /\ pc = "run"
    /\ Len(completed) = 1
    /\ completed[1].error = Cancelled
    /\ childState = "none"

\* the four sources of alternative (a)
AllFourSources ==
    {"child_watch_source", "child_stdin_source", "child_stdout_source", "child_stderr_source"}

\* the completions scheduled on the loop and those it has delivered already
ScheduledErrors == idleQ \o [i \in 1..Len(completed) |-> completed[i].error]

SourcesFor(input) ==
    IF input # Null THEN AllFourSources ELSE AllFourSources \ {"child_stdin_source"}

release_effects(j) ==
    [ destroyed    |-> {s \in AllFourSources : j[s]},
      closed       |-> {f \in {"child_stdin_fd", "child_stdout_fd", "child_stderr_fd"} :
                           j[f] # NoFd},
      unreffed     |-> {c \in {"child_stdin_channel", "child_stdout_channel",
                               "child_stderr_channel"} : j[c]},
      disconnected |-> j.cancellable_handler_id > 0 ]

\* C18: from every reachable state of the Job, a second run of release right
\* after a first one leaves the Job as the first run left it, sends no SIGTERM,
\* attaches no child watch, destroys no source, closes no descriptor, unrefs no
\* channel and disconnects nothing; over the life of a Job, through all its
\* runs of release, at most one SIGTERM is sent.
C18_ReleaseIdempotent ==
    LET once  == udisks_spawned_job_release_resources(job)
        twice == udisks_spawned_job_release_resources(once.job)
    IN  /\ twice.job = once.job
        /\ ~twice.kill
        /\ ~twice.watch
        /\ release_effects(once.job) =
             [destroyed |-> {}, closed |-> {}, unreffed |-> {}, disconnected |-> FALSE]
        /\ termSent <= 1

\* release has run twice in a row: child_watch_cb ran it after the natural
\* outcome and its unref, being the last, ran it again from finalize; a stdout
\* pipe and two more descriptors were open before, and no SIGTERM was sent
C18_Witness ==
    /\ finalized
    /\ completed # <<>>
    /\ completed[Len(completed)].error = NoError
    /\ termSent = 0
    /\ ~releaseWatch
    /\ release_effects(job).closed = {}

\* ---- udisks_mount_compare ---------------------------------------------------
\* length of the mount paths compared
MaxPath == 1
\* bytes of the mount paths: "/" and "a"
PathBytes == {47, 97}
MountPaths == SeqsUpTo(PathBytes, MaxPath)

\* a dev_t is 64 bits wide: four 16-bit limbs, the most significant first
Limb == 65536
\* device numbers that differ in bit 0, in bit 31 and in bit 32
Devs == {<<0, w2, w1, w0>> : w2 \in {0, 1}, w1 \in {0, 32768}, w0 \in {0, 1}}

\* UDisksMount: mount_path and dev
Mounts == [mount_path : MountPaths, dev : Devs]

\* strcmp on the bytes in front of the terminating NUL: the difference of the
\* first pair of bytes that differ
RECURSIVE strcmp(_, _)
strcmp(s1, s2) ==
    LET c1 == IF s1 = <<>> THEN 0 ELSE Head(s1)
        c2 == IF s2 = <<>> THEN 0 ELSE Head(s2)
    IN  IF c1 # c2 THEN c1 - c2
        ELSE IF c1 = 0 THEN 0
        ELSE strcmp(Tail(s1), Tail(s2))

\* g_strcmp0 of two strings that are not NULL
g_strcmp0(str1, str2) == strcmp(str1, str2)

\* (gint) (d - e): the difference of two dev_t modulo 2^64, cut to its low 32
\* bits and read as a signed integer
dev_difference_as_gint(d, e) ==
    LET lo     == (d[4] - e[4]) % Limb
        borrow == IF d[4] < e[4] THEN 1 ELSE 0
        hi     == (d[3] - e[3] - borrow) % Limb
    IN  IF hi >= Limb \div 2 THEN (hi - Limb) * Limb + lo ELSE hi * Limb + lo

\* the order of two device numbers as 64-bit integers: -1, 0 or 1
dev_order(d, e) ==
    LET differ == {i \in 1..4 : d[i] # e[i]}
        first  == CHOOSE i \in differ : \A j \in differ : i <= j
    IN  IF differ = {} THEN 0 ELSE IF d[first] < e[first] THEN -1 ELSE 1

\* udisks_mount_compare
udisks_mount_compare(mount, other_mount) ==
    LET by_path == g_strcmp0(other_mount.mount_path, mount.mount_path)
    IN  IF by_path # 0 THEN by_path
        ELSE dev_difference_as_gint(mount.dev, other_mount.dev)

CompareInit ==
    /\ NoJob
    /\ call \in {[fn |-> "udisks_mount_compare", a |-> a, b |-> b, c |-> c] :
                     a \in Mounts, b \in Mounts, c \in Mounts}
    /\ ret = NoRet

\* the three mounts compared pairwise
CompareMounts ==
    /\ call.fn = "udisks_mount_compare"
    /\ ret = NoRet
    /\ ret' = [fn |-> "udisks_mount_compare",
               ab |-> udisks_mount_compare(call.a, call.b),
               ba |-> udisks_mount_compare(call.b, call.a),
               bc |-> udisks_mount_compare(call.b, call.c),
               ac |-> udisks_mount_compare(call.a, call.c)]
    /\ UNCHANGED <<call, jobVars>>

CompareNext == CompareMounts

CompareSpec == CompareInit /\ [][CompareNext]_vars

Sign(n) == IF n < 0 THEN -1 ELSE IF n > 0 THEN 1 ELSE 0

\* C19: the comparison is a total order on the mounts: by mount path descending,
\* then by device number ascending; zero only for equal path and device number;
\* antisymmetric and transitive over the full width of dev_t.
C19_TotalOrder ==
    ret.fn = "udisks_mount_compare" =>
        /\ ret.ab = 0 <=> call.a = call.b
        /\ Sign(ret.ab) = -Sign(ret.ba)
        /\ (ret.ab <= 0 /\ ret.bc <= 0) => ret.ac <= 0
        /\ call.a.mount_path # call.b.mount_path
             => Sign(ret.ab) = Sign(strcmp(call.b.mount_path, call.a.mount_path))
        /\ call.a.mount_path = call.b.mount_path
             => Sign(ret.ab) = dev_order(call.a.dev, call.b.dev)

\* ---- udisks_safe_append_to_object_path ---------------------------------------
\* length of the strings appended
MaxStr == 1
\* every byte a C string can hold
StrBytes == 1..255

\* one hexadecimal digit, lowercase
HexDigit(d) == IF d < 10 THEN 48 + d ELSE 87 + d

\* the hexadecimal digits of n >= 0, at least `width` of them
RECURSIVE HexDigits(_, _)
HexDigits(n, width) ==
    IF n < 16 /\ width <= 1 THEN <<HexDigit(n)>>
    ELSE HexDigits(n \div 16, width - 1) \o <<HexDigit(n % 16)>>

\* printf's %02x of the gint c: c is read as an unsigned int, so a negative c
\* counts from 2^32 down and prints as the 16 high bits, all set, and the 16
\* low bits
printf_02x(c) ==
    IF c >= 0 THEN HexDigits(c, 2)
    ELSE HexDigits(65535, 4) \o HexDigits(c + 65536, 4)

\* gint c = s[n]: a gchar is a char, signed or unsigned as the ABI has it
gchar_to_gint(byte, char_signed) ==
    IF char_signed /\ byte >= 128 THEN byte - 256 ELSE byte

\* the test of line 124 on the gint c
IsAlnum(c) == (c >= 65 /\ c <= 90) \/ (c >= 97 /\ c <= 122) \/ (c >= 48 /\ c <= 57)

\* udisks_safe_append_to_object_path: str after the bytes of s were appended
RECURSIVE udisks_safe_append_to_object_path(_, _, _)
udisks_safe_append_to_object_path(str, s, char_signed) ==
    IF s = <<>> THEN str
    ELSE LET c == gchar_to_gint(Head(s), char_signed)
         IN  udisks_safe_append_to_object_path(
                 IF IsAlnum(c) THEN Append(str, c) ELSE str \o <<95>> \o printf_02x(c),
                 Tail(s), char_signed)

SanitizeInit ==
    /\ NoJob
    /\ call \in {[fn |-> "udisks_safe_append_to_object_path", str |-> <<47>>, s |-> s,
                  char_signed |-> b] : s \in SeqsUpTo(StrBytes, MaxStr), b \in BOOLEAN}
    /\ ret = NoRet

Sanitize ==
    /\ call.fn = "udisks_safe_append_to_object_path"
    /\ ret = NoRet
    /\ ret' = [fn  |-> "udisks_safe_append_to_object_path",
               str |-> udisks_safe_append_to_object_path(call.str, call.s, call.char_signed)]
    /\ UNCHANGED <<call, jobVars>>

SanitizeNext == Sanitize

SanitizeSpec == SanitizeInit /\ [][SanitizeNext]_vars

\* what the sanitizer is to append for the bytes of s
RECURSIVE Escaped(_)
Escaped(s) ==
    IF s = <<>> THEN <<>>
    ELSE (IF IsAlnum(Head(s)) THEN <<Head(s)>>
          ELSE <<95, HexDigit(Head(s) \div 16), HexDigit(Head(s) % 16)>>)
         \o Escaped(Tail(s))

\* C20: for each byte of the input in order the sanitizer appends the byte when
\* it is in [A-Za-z0-9], and otherwise "_" and the two lowercase hexadecimal
\* digits of the byte, for every byte value 0x01..0xFF; the appended text
\* contains only characters in [A-Za-z0-9_].
C20_SanitizerEscapes ==
    ret.fn = "udisks_safe_append_to_object_path" =>
        /\ ret.str = call.str \o Escaped(call.s)
        /\ \A i \in (Len(call.str) + 1)..Len(ret.str) :
               IsAlnum(ret.str[i]) \/ ret.str[i] = 95

Reported(kind) == \E i \in 1..Len(ScheduledErrors) : ScheduledErrors[i] = kind

\* C22: when the parse of the command line has failed, no spawn was attempted:
\* there is no child, child_pid is 0, the three descriptors are -1, and a
\* completion with ParseFailed is scheduled or delivered; when the spawn has
\* failed, no exit or I/O source is registered and a completion with SpawnFailed
\* is scheduled or delivered.  Unless the token tripped as well, that completion
\* is the only one of the Job.
C22_ConstructionFailures ==
    /\ Reported(ParseFailed)
         => /\ childState = "none"
            /\ job.child_pid = 0
            /\ PipesClosed
            /\ SourcesRegistered = {}
            /\ ~Reported(SpawnFailed)
    /\ Reported(SpawnFailed)
         => /\ childState = "none"
            /\ job.child_pid = 0
            /\ SourcesRegistered = {}
            /\ ~Reported(ParseFailed)
    /\ (pc \in {"out", "run"} /\ childState = "none" /\ ~tripped)
         => /\ Len(ScheduledErrors) = 1
            /\ ScheduledErrors[1] \in {ParseFailed, SpawnFailed}
    /\ (Reported(ParseFailed) \/ Reported(SpawnFailed))
         => \A i \in 1..Len(ScheduledErrors) :
                ScheduledErrors[i] \in {ParseFailed, SpawnFailed, Cancelled}

\* the parse failed and the loop has delivered ParseFailed
C22_Witness ==
    /\ pc = "run"
    /\ Len(completed) = 1
    /\ completed[1].error = ParseFailed
    /\ job.child_pid = 0
    /\ idleQ = <<>>

\* C23: between callbacks, an open stdin descriptor has its writable source
\* registered, and a Job that has no stdin source has no open stdin descriptor
\* (the source closes it as it detaches); without an input string the stdin
\* descriptor is -1 and the source unregistered in every state.
C23_StdinSourceAndFd ==
    /\ job.child_stdin_fd # NoFd <=> job.child_stdin_source
    /\ job.child_stdin_source <=> job.child_stdin_channel
    /\ input_string = Null
         => /\ job.child_stdin_fd = NoFd
            /\ ~job.child_stdin_source

\* write_child_stdin has written the input string, detached its source and
\* closed the descriptor while the child runs
C23_Witness ==
    /\ StdinClosedByWriter
    /\ ~job.child_stdin_source
    /\ job.child_stdout_source
    /\ childState = "running"

\* the references to the Job that are not the caller's
SelfReferences == ref_count - (IF callerHolds THEN 1 ELSE 0)

\* C24: while an exit or I/O source of the Job is registered the Job holds a
\* reference to itself, and a Job whose caller dropped the last reference while
\* the child ran is not destroyed before a completion.
C24_SelfReferenceWhileSources ==
    SingleThreaded =>
        /\ SourcesRegistered # {} => SelfReferences >= 1
        /\ (finalized /\ childState # "none") => completed # <<>>

\* a step in which completed is emitted and a handler gives up the caller's
\* reference during the emission
HandlerDropsLast == completed' # completed /\ callerHolds /\ ~callerHolds'

\* C25: when a completed handler releases the caller's reference during the
\* emission, the Job still has a reference when the handler returns (the idle
\* source's on the error path, the one child_watch_cb takes on the child-exit
\* path), and if the Job is destroyed in that callback, it is destroyed after
\* the emission with everything released.
C25_AliveThroughEmission ==
    [][ HandlerDropsLast =>
          LET e      == completed'[Len(completed')]
              during == IF e.error = NoError THEN ref_count + 1 ELSE ref_count
          IN  /\ during - 1 >= 1
              /\ ref_count' = during - 2
              /\ finalized' <=> during = 2
              /\ e.error = NoError
                   => /\ PipesClosed'
                      /\ SourcesRegistered' = {}
                      /\ job'.child_pid = 0
                      /\ job'.child_stdout = Null
              /\ finalized' => SourcesRegistered' = {} /\ PipesClosed' ]_vars

\* a handler of the natural outcome dropped the caller's reference, and the Job
\* was destroyed once child_watch_cb had released it
C25_Witness ==
    /\ finalized
    /\ ~callerHolds
    /\ ref_count = 0
    /\ Len(completed) = 1
    /\ completed[1].error = NoError
    /\ termSent = 0

\* the exit watches registered on the loop for the child's pid: the Job's own
\* and the detached one of release
ExitWatches ==
    (IF job.child_watch_source THEN 1 ELSE 0) + (IF releaseWatch THEN 1 ELSE 0)

CallerThreadStep ==
    \/ pc' # pc
    \/ callerHolds /\ ~callerHolds' /\ completed' = completed

\* the loop has something of the Job to dispatch
LoopHasCallbacks == idleQ # <<>> \/ SourcesRegistered # {} \/ releaseWatch

\* C27: on_cancelled writes no field of the Job and only enqueues one idle
\* callback on the captured loop (nor does cancelling the token write any
\* field of the Job); and once the loop has
\* callbacks of the Job to dispatch, every write to the Job's fields is made on
\* the thread of that loop: by one of those callbacks, or by the constructing
\* thread only when it is the thread of the captured (thread-default) context.
C27_WritesOnLoopThread ==
    [][ /\ tripped' # tripped
            => UNCHANGED <<job, idleQ, completed, finalized, callerHolds, pc, input_heap,
                           osVars, termSent, releaseWatch, pipeVars>>
        /\ (cancelled_running /\ ~cancelled_running')
            => /\ idleQ' = Append(idleQ, Cancelled)
               /\ UNCHANGED <<job, completed, finalized, callerHolds, pc, input_heap,
                              osVars, termSent, releaseWatch, pipeVars>>
        /\ (job' # job /\ LoopHasCallbacks /\ CallerThreadStep)
            => main_context = ThreadDefault ]_vars

\* the exit-watch has observed the child's exit: child_watch_cb has emitted
\* the natural outcome
ExitObserved == \E i \in 1..Len(completed) : completed[i].error = NoError

\* C28: at most one SIGTERM is sent over the life of a Job, and none to a
\* child whose exit child_watch_cb has observed: from then on child_pid is 0,
\* no SIGTERM was or will be sent by release (neither the one of the exit
\* callback nor the finalizer's) and no detached watch is registered.
C28_NoSigtermAfterObservedExit ==
    /\ termSent \in {0, 1}
    /\ ExitObserved
        => /\ termSent = 0
           /\ job.child_pid = 0
           /\ childState = "reaped"
           /\ ~releaseWatch
           /\ Kills(udisks_spawned_job_release_resources(job)) = 0
           /\ ~udisks_spawned_job_release_resources(job).watch
    /\ termSent = 1 => ~ExitObserved /\ childState # "none"

\* the child exited by itself, child_watch_cb emitted its outcome and ran
\* release, and the finalizer has run release again: no SIGTERM at all
C28_Witness ==
    /\ finalized
    /\ ExitObserved
    /\ childState = "reaped"
    /\ job.child_pid = 0
    /\ termSent = 0

\* C29: close () is called at most once on each parent-side descriptor number,
\* whatever the sequence of write_child_stdin, child_watch_cb, release and
\* finalization: a field that still holds a number holds one that was never
\* closed, a number that was closed is in no field any more (the field is -1),
\* and a further release closes exactly the fields that are still open.
C29_DescriptorsClosedOnce ==
    /\ \A d \in Fds : close_calls[d] \in {0, 1}
    /\ \A f \in FdFields : job[f] # NoFd => job[f] \in Fds /\ close_calls[job[f]] = 0
    /\ \A d \in Fds : close_calls[d] = 1 => \A f \in FdFields : job[f] # d
    /\ \A f, g \in FdFields : (f # g /\ job[f] # NoFd) => job[f] # job[g]
    /\ release_effects(job).closed = {f \in FdFields : job[f] # NoFd}
    /\ finalized => PipesClosed

\* all input was written, each of the three descriptors was closed once, and
\* release has run again after that (from child_watch_cb and from finalize)
C29_Witness ==
    /\ finalized
    /\ ExitObserved
    /\ input_string # Null
    /\ Len(input_string) = MaxIn
    /\ job.input_string_cursor = Len(input_string)
    /\ \A d \in Fds : close_calls[d] = 1

\* C30: once the Job is destroyed no callback that takes it is left to be
\* dispatched: the exit and I/O sources are destroyed, the cancellation
\* handler is disconnected and no idle completion is pending; and every
\* pending idle completion holds a reference of its own on the Job.
C30_NoCallbackAfterDestruction ==
    /\ finalized
        => /\ SourcesRegistered = {}
           /\ job.cancellable_handler_id = 0
           /\ idleQ = <<>>
    /\ ref_count >= Len(idleQ)

====
